---- MODULE Spec2Model ----
(***************************************************************************)
(* A model of generate.py, the static site generator: the worker pool of   *)
(* main() that ingests the markdown documents, the sort of the entries,    *)
(* Generator.run (tag grouping, pagination, keyword ranking, the files it  *)
(* writes), and the rewriting passes entry_from_markdown applies to the    *)
(* page variant of one document (playground blocks, images, anchors).      *)
(*                                                                         *)
(* Strings of the program are TLA+ strings; file names, ids and slugs are  *)
(* built by concatenation as the code builds them.                         *)
(***************************************************************************)
EXTENDS Integers, Sequences, FiniteSets, TLC

\* ------------------------------------------------------------------------
\* Bounds of the model
\* ------------------------------------------------------------------------
MaxFiles == 2        \* documents matched by the content glob (main)
MaxPublished == 2    \* distinct publication dates of the documents
MaxEntries == 3      \* entries handed to a Generator (Generator.run alone)
MaxPageSize == 2     \* entries_per_page
MaxHeadings == 3     \* headings of one document (_fix_anchors)
MaxImages == 2       \* image paragraphs of one document (_process_body_images)
MaxBlocks == 3       \* top-level blocks of one document (_convert_playground_blocks)
MaxQuotes == 3       \* top-level blocks of one document (_cleanup_blockquotes)

\* ------------------------------------------------------------------------
\* Program constants
\* ------------------------------------------------------------------------
max_workers == 10    \* ThreadPoolExecutor(max_workers=10)
KeywordCap == 20     \* sorted(...)[:20]

\* ------------------------------------------------------------------------
\* String helpers (str methods and re of the standard library)
\* ------------------------------------------------------------------------
Char(s, i) == SubSeq(s, i, i)

UpperLetters == "ABCDEFGHIJKLMNOPQRSTUVWXYZ"
LowerLetters == "abcdefghijklmnopqrstuvwxyz"
Digits == "0123456789"

CharsOf(s) == {Char(s, i) : i \in 1..Len(s)}

UpperChars == CharsOf(UpperLetters)
DigitChars == CharsOf(Digits)
WordChars == UpperChars \cup CharsOf(LowerLetters) \cup DigitChars \cup {"_"}

\* \w of re, on the ASCII characters the model uses
IsWordChar(c) == c \in WordChars

\* str.lower on one character
LowerChar(c) ==
    IF c \in UpperChars
    THEN Char(LowerLetters, CHOOSE i \in 1..Len(UpperLetters) : Char(UpperLetters, i) = c)
    ELSE c

RECURSIVE Lower(_)
Lower(s) == IF s = "" THEN "" ELSE LowerChar(Char(s, 1)) \o Lower(SubSeq(s, 2, Len(s)))

\* str.strip(chars): drop the leading and trailing characters that are in chars
RECURSIVE LStrip(_, _)
LStrip(s, chars) ==
    IF s # "" /\ Char(s, 1) \in chars THEN LStrip(SubSeq(s, 2, Len(s)), chars) ELSE s

RECURSIVE RStrip(_, _)
RStrip(s, chars) ==
    IF s # "" /\ Char(s, Len(s)) \in chars THEN RStrip(SubSeq(s, 1, Len(s) - 1), chars) ELSE s

Strip(s, chars) == RStrip(LStrip(s, chars), chars)

Whitespace == {" ", "\n", "\t"}

\* str.split(sep) for a one-character separator: "".split(",") is [""]
RECURSIVE SplitFrom(_, _, _)
SplitFrom(s, sep, cur) ==
    IF s = "" THEN <<cur>>
    ELSE IF Char(s, 1) = sep
         THEN <<cur>> \o SplitFrom(SubSeq(s, 2, Len(s)), sep, "")
         ELSE SplitFrom(SubSeq(s, 2, Len(s)), sep, cur \o Char(s, 1))

Split(s, sep) == SplitFrom(s, sep, "")

StartsWith(s, p) == Len(s) >= Len(p) /\ SubSeq(s, 1, Len(p)) = p
EndsWith(s, p) == Len(s) >= Len(p) /\ SubSeq(s, Len(s) - Len(p) + 1, Len(s)) = p

\* re.sub(r"[^\w]+", "-", s): every run of non-word characters becomes one "-"
RECURSIVE SubNonWord(_, _)
SubNonWord(s, inRun) ==
    IF s = "" THEN ""
    ELSE IF IsWordChar(Char(s, 1))
         THEN Char(s, 1) \o SubNonWord(SubSeq(s, 2, Len(s)), FALSE)
         ELSE (IF inRun THEN "" ELSE "-") \o SubNonWord(SubSeq(s, 2, Len(s)), TRUE)

\* the slug of a title (NFKD leaves the ASCII titles of the model unchanged)
Slugify(title) == Lower(Strip(SubNonWord(title, FALSE), {"-"}))

\* tags = [tag.strip() for tag in metadata["tags"].split(",")]
ParseTags(raw) == LET parts == Split(raw, ",")
                  IN  [i \in 1..Len(parts) |-> Strip(parts[i], Whitespace)]

Range(seq) == {seq[i] : i \in 1..Len(seq)}

\* all sequences over S of length at most n
SeqsUpTo(S, n) == UNION {[1..k -> S] : k \in 0..n}

\* ------------------------------------------------------------------------
\* State
\* ------------------------------------------------------------------------
VARIABLES
    files,            \* main: the documents matched by glob, in file-list order
    cfg,              \* main: the configuration (entriesPerPage, skipFeeds, skipJSON)
    status,           \* per submitted task: "queued", "running", "done", "failed", "cancelled"
    results,          \* per submitted task: what its future holds once it has finished
    collected,        \* the entries list(executor.map(...)) has gathered so far
    pc,               \* position of the main thread
    entries,          \* Generator.entries
    entries_by_tag,   \* Generator.run: the dict, as [tag, members] items in insertion order
    pages,            \* Generator.run: the page groups
    keywords,         \* Generator.run: the keyword ranking
    emitted,          \* the renderings of _generate, in order
    writes,           \* every path opened for writing under the output directory, in order
    html,             \* entry_from_markdown: the page-variant markup markdown() returned
    soup,             \* entry_from_markdown: the page variant of one document
    soup_feed,        \* entry_from_markdown: the feed variant of the same document
    stage,            \* entry_from_markdown: the pass that has been applied to soup
    has_playground,   \* entry_from_markdown: has_pg
    playground_runtime \* entry_from_markdown: runtime

pipeVars == <<files, cfg, status, results, collected, pc, entries, entries_by_tag,
              pages, keywords, emitted, writes>>
docVars == <<html, soup, soup_feed, stage, has_playground, playground_runtime>>
vars == <<pipeVars, docVars>>

\* ------------------------------------------------------------------------
\* entry_from_markdown, as main() sees it: an Entry, or the RuntimeError
\* ------------------------------------------------------------------------
NoEntry == [slug |-> "", published |-> 0, tags |-> <<>>]

\* soup.find("blockquote", recursive=False): a top-level blockquote
HasTopLevelBlockquote(body) == \E i \in 1..Len(body) : body[i] = "blockquote"

\* an ingestion that goes on without the summary blockquote
entry_from_markdown_never_raises(doc) == FALSE

\* bq = soup.find("blockquote", recursive=False); if not bq: raise RuntimeError(...)
entry_from_markdown_raises(doc) == ~HasTopLevelBlockquote(doc.body)

entry_from_markdown(doc) ==
    IF entry_from_markdown_raises(doc)
    THEN [ok |-> FALSE, entry |-> NoEntry]
    ELSE [ok |-> TRUE,
          entry |-> [slug |-> Slugify(doc.title),
                     published |-> doc.published,
                     tags |-> ParseTags(doc.tags)]]

\* ------------------------------------------------------------------------
\* main(): the worker pool
\* ------------------------------------------------------------------------
Titles == {"Go", "Post 1"}
TagStrings == {"go", "x, x"}
Bodies == {<<"blockquote", "p">>, <<"p">>}

Docs == [title : Titles, published : 1..MaxPublished, tags : TagStrings, body : Bodies]

Configs == {[entriesPerPage |-> MaxPageSize, skipFeeds |-> FALSE, skipJSON |-> FALSE],
            [entriesPerPage |-> 1, skipFeeds |-> TRUE, skipJSON |-> TRUE]}

NoConfig == [entriesPerPage |-> 1, skipFeeds |-> FALSE, skipJSON |-> FALSE]

DocIdle == /\ html = <<>>
           /\ soup = <<>>
           /\ soup_feed = <<>>
           /\ stage = "idle"
           /\ has_playground = FALSE
           /\ playground_runtime = ""

RunIdle == /\ entries_by_tag = <<>>
           /\ pages = <<>>
           /\ keywords = <<>>
           /\ emitted = <<>>
           /\ writes = <<>>

\* files = glob.glob(...); executor.map submits one task per file
Init ==
    /\ files \in SeqsUpTo(Docs, MaxFiles)
    /\ cfg \in Configs
    /\ status = [i \in 1..Len(files) |-> "queued"]
    /\ results = [i \in 1..Len(files) |-> [ok |-> FALSE, entry |-> NoEntry]]
    /\ collected = <<>>
    /\ pc = "ingest"
    /\ entries = <<>>
    /\ RunIdle
    /\ DocIdle

Running == {i \in 1..Len(files) : status[i] = "running"}

\* A worker takes the next work item of the queue (FIFO) and opens the file.
Start(i) ==
    /\ pc = "ingest"
    /\ status[i] = "queued"
    /\ \A j \in 1..(i - 1) : status[j] # "queued"
    /\ Cardinality(Running) < max_workers
    /\ status' = [status EXCEPT ![i] = "running"]
    /\ UNCHANGED <<files, cfg, results, collected, pc, entries, entries_by_tag, pages,
                   keywords, emitted, writes, docVars>>

\* The worker's call of entry_from_markdown returns or raises; the future holds the outcome.
Finish(i) ==
    /\ pc \in {"ingest", "cancel"}
    /\ status[i] = "running"
    /\ LET r == entry_from_markdown(files[i])
       IN  /\ results' = [results EXCEPT ![i] = r]
           /\ status' = [status EXCEPT ![i] = IF r.ok THEN "done" ELSE "failed"]
    /\ UNCHANGED <<files, cfg, collected, pc, entries, entries_by_tag, pages,
                   keywords, emitted, writes, docVars>>

\* list(executor.map(...)): the iterator yields the results in submission order
CollectNext ==
    /\ pc = "ingest"
    /\ Len(collected) < Len(files)
    /\ LET k == Len(collected) + 1
       IN  /\ status[k] = "done"
           /\ collected' = Append(collected, results[k].entry)
    /\ UNCHANGED <<files, cfg, status, results, pc, entries, entries_by_tag, pages,
                   keywords, emitted, writes, docVars>>

\* the next future raised: the iterator re-raises and cancels the futures still queued
RaiseFromMap ==
    /\ pc = "ingest"
    /\ Len(collected) < Len(files)
    /\ status[Len(collected) + 1] = "failed"
    /\ status' = [i \in 1..Len(files) |-> IF status[i] = "queued" THEN "cancelled" ELSE status[i]]
    /\ pc' = "cancel"
    /\ UNCHANGED <<files, cfg, results, collected, entries, entries_by_tag, pages,
                   keywords, emitted, writes, docVars>>

\* leaving the with block waits for the running workers; the exception leaves main()
AbortRun ==
    /\ pc = "cancel"
    /\ Running = {}
    /\ pc' = "aborted"
    /\ UNCHANGED <<files, cfg, status, results, collected, entries, entries_by_tag, pages,
                   keywords, emitted, writes, docVars>>

\* a sort that reverses an ascending sort: equal dates come out in reverse order
InsertByPublishedReversingTies(sorted, e) ==
    LET before == {i \in 1..Len(sorted) : sorted[i].published > e.published}
        k == Cardinality(before)
    IN  SubSeq(sorted, 1, k) \o <<e>> \o SubSeq(sorted, k + 1, Len(sorted))

\* entries.sort(key=lambda e: e.published, reverse=True): stable, descending;
\* one insertion of the sort, behind the entries that are not older
InsertByPublished(sorted, e) ==
    LET before == {i \in 1..Len(sorted) : sorted[i].published >= e.published}
        k == Cardinality(before)
    IN  SubSeq(sorted, 1, k) \o <<e>> \o SubSeq(sorted, k + 1, Len(sorted))

RECURSIVE SortByPublished(_)
SortByPublished(s) ==
    IF s = <<>> THEN <<>>
    ELSE InsertByPublished(SortByPublished(SubSeq(s, 1, Len(s) - 1)), s[Len(s)])

\* all results gathered: sort, construct the Generator
SortEntries ==
    /\ pc = "ingest"
    /\ Len(collected) = Len(files)
    /\ entries' = SortByPublished(collected)
    /\ pc' = "group"
    /\ UNCHANGED <<files, cfg, status, results, collected, entries_by_tag, pages,
                   keywords, emitted, writes, docVars>>

\* ------------------------------------------------------------------------
\* Generator.run
\* ------------------------------------------------------------------------
HasKey(ebt, tag) == \E i \in 1..Len(ebt) : ebt[i].tag = tag
KeyIndex(ebt, tag) == CHOOSE i \in 1..Len(ebt) : ebt[i].tag = tag
Members(ebt, tag) == ebt[KeyIndex(ebt, tag)].members
Keys(ebt) == [i \in 1..Len(ebt) |-> ebt[i].tag]

\* for tag in entry.tags:
\*     if tag not in entries_by_tag: entries_by_tag[tag] = []
\*     entries_by_tag[tag].append(entry)
RECURSIVE AddEntryTags(_, _, _)
AddEntryTags(ebt, entry, tags) ==
    IF tags = <<>> THEN ebt
    ELSE IF HasKey(ebt, tags[1])
         THEN AddEntryTags([ebt EXCEPT ![KeyIndex(ebt, tags[1])].members = Append(@, entry)],
                           entry, Tail(tags))
         ELSE AddEntryTags(Append(ebt, [tag |-> tags[1], members |-> <<entry>>]),
                           entry, Tail(tags))

\* for entry in self.entries: ...
RECURSIVE GroupByTag(_)
GroupByTag(es) ==
    IF es = <<>> THEN <<>>
    ELSE AddEntryTags(GroupByTag(SubSeq(es, 1, Len(es) - 1)), es[Len(es)], es[Len(es)].tags)

\* for i, entry in enumerate(self.entries): a new page when i % entries_per_page == 0
RECURSIVE Paginate(_, _)
Paginate(es, perPage) ==
    IF es = <<>> THEN <<>>
    ELSE LET i == Len(es) - 1
             prev == Paginate(SubSeq(es, 1, i), perPage)
             open == IF i % perPage = 0 THEN Append(prev, <<>>) ELSE prev
         IN  [open EXCEPT ![Len(open)] = Append(@, es[Len(es)])]

\* a ranking that puts a tag before the tags of equal count met earlier
InsertByCountBeforeTies(sorted, item) ==
    LET before == {i \in 1..Len(sorted) : Len(sorted[i].members) < Len(item.members)}
        k == Cardinality(before)
    IN  SubSeq(sorted, 1, k) \o <<item>> \o SubSeq(sorted, k + 1, Len(sorted))

\* one insertion of sorted(keys, key=len of the member list): stable, ascending
InsertByCount(sorted, item) ==
    LET before == {i \in 1..Len(sorted) : Len(sorted[i].members) <= Len(item.members)}
        k == Cardinality(before)
    IN  SubSeq(sorted, 1, k) \o <<item>> \o SubSeq(sorted, k + 1, Len(sorted))

RECURSIVE SortByCount(_)
SortByCount(ebt) ==
    IF ebt = <<>> THEN <<>>
    ELSE InsertByCount(SortByCount(SubSeq(ebt, 1, Len(ebt) - 1)), ebt[Len(ebt)])

\* the slice [:20]
Truncate(s, cap) == SubSeq(s, 1, IF Len(s) < cap THEN Len(s) ELSE cap)

Keywords(ebt) == Truncate(Keys(SortByCount(ebt)), KeywordCap)

\* _generate: one rendering, written to public/<name>.html and, unless skip_json, .json
GenerateWrites(name, skipJSON) ==
    <<"public/" \o name \o ".html">> \o
    (IF skipJSON THEN <<>> ELSE <<"public/" \o name \o ".json">>)

Rendering(kind, name, es, more, page) ==
    [kind |-> kind, name |-> name, entries |-> es, more |-> more, page |-> page]

\* lines 496-521: the grouping pass, the pagination pass, the keyword ranking
RunGroup ==
    /\ pc = "group"
    /\ entries_by_tag' = GroupByTag(entries)
    /\ pages' = Paginate(entries, cfg.entriesPerPage)
    /\ keywords' = Keywords(GroupByTag(entries))
    /\ pc' = "entries"
    /\ UNCHANGED <<files, cfg, status, results, collected, entries, emitted, writes, docVars>>

RECURSIVE Flatten(_)
Flatten(ss) == IF ss = <<>> THEN <<>> ELSE ss[1] \o Flatten(Tail(ss))

\* the writes of one _generate call per name, in order
WritesOf(names, skipJSON) ==
    Flatten([i \in 1..Len(names) |-> GenerateWrites(names[i], skipJSON)])

\* lines 523-546: one entry page per entry
RunEntries ==
    /\ pc = "entries"
    /\ emitted' = emitted \o
          [i \in 1..Len(entries) |-> Rendering("entry", entries[i].slug, <<entries[i]>>, FALSE, 0)]
    /\ writes' = writes \o WritesOf([i \in 1..Len(entries) |-> entries[i].slug], cfg.skipJSON)
    /\ pc' = "listing"
    /\ UNCHANGED <<files, cfg, status, results, collected, entries, entries_by_tag, pages,
                   keywords, docVars>>

\* "more" of the index target
IndexMore(pgs) == Len(pgs) > 1

\* "more" of page page_num
PageMoreAlways(pgs, page_num) == TRUE

PageMore(pgs, page_num) == page_num # Len(pgs)

\* lines 548-565: the numbered listing pages, then page 1 again as "index"
RunListing ==
    /\ pc = "listing"
    /\ LET index_entries == IF Len(pages) > 0 THEN pages[1] ELSE <<>>
       IN  emitted' = emitted \o
              [i \in 1..Len(pages) |-> Rendering("page", ToString(i), pages[i], PageMore(pages, i), i)] \o
              <<Rendering("index", "index", index_entries, IndexMore(pages), 1)>>
    /\ writes' = writes \o
          WritesOf([i \in 1..Len(pages) |-> ToString(i)] \o <<"index">>, cfg.skipJSON)
    /\ pc' = "tags"
    /\ UNCHANGED <<files, cfg, status, results, collected, entries, entries_by_tag, pages,
                   keywords, docVars>>

\* lines 567-576: one tag page per key of entries_by_tag
RunTags ==
    /\ pc = "tags"
    /\ emitted' = emitted \o
          [i \in 1..Len(entries_by_tag) |->
              Rendering("tag", entries_by_tag[i].tag, entries_by_tag[i].members, FALSE, 0)]
    /\ writes' = writes \o WritesOf(Keys(entries_by_tag), cfg.skipJSON)
    /\ pc' = "feeds"
    /\ UNCHANGED <<files, cfg, status, results, collected, entries, entries_by_tag, pages,
                   keywords, docVars>>

\* lines 578-598: feed.xml and one <tag>.xml per tag, unless skip_feeds
RunFeeds ==
    /\ pc = "feeds"
    /\ writes' = writes \o
          (IF cfg.skipFeeds THEN <<>>
           ELSE <<"public/feed.xml">> \o
                [i \in 1..Len(entries_by_tag) |-> "public/" \o entries_by_tag[i].tag \o ".xml"])
    /\ pc' = "static"
    /\ UNCHANGED <<files, cfg, status, results, collected, entries, entries_by_tag, pages,
                   keywords, emitted, docVars>>

\* lines 600-631: the search descriptor, the sitemap, the manifest, robots.txt, the resume
RunStatic ==
    /\ pc = "static"
    /\ writes' = writes \o <<"public/opensearch.xml", "public/sitemap.xml",
                             "public/manifest.webmanifest", "public/robots.txt",
                             "public/resume.html">>
    /\ pc' = "done"
    /\ UNCHANGED <<files, cfg, status, results, collected, entries, entries_by_tag, pages,
                   keywords, emitted, docVars>>

Run == RunGroup \/ RunEntries \/ RunListing \/ RunTags \/ RunFeeds \/ RunStatic

\* ------------------------------------------------------------------------
\* The program: main()
\* ------------------------------------------------------------------------
Next ==
    \/ \E i \in 1..Len(files) : Start(i)
    \/ \E i \in 1..Len(files) : Finish(i)
    \/ CollectNext
    \/ RaiseFromMap
    \/ AbortRun
    \/ SortEntries
    \/ Run

Spec == Init /\ [][Next]_vars

\* ------------------------------------------------------------------------
\* Generator.run on a Generator constructed with any entry list
\* ------------------------------------------------------------------------
BulkTags == <<"x", "t01", "t02", "t03", "t04", "t05", "t06", "t07", "t08", "t09", "t10",
              "t11", "t12", "t13", "t14", "t15", "t16", "t17", "t18", "t19", "t20">>

TagLists == {<<"go">>, <<"x", "go", "x">>, BulkTags}

GenEntries == [slug : {"go", "post-1"}, published : {1}, tags : TagLists]

GenConfigs == [entriesPerPage : 1..MaxPageSize, skipFeeds : {FALSE}, skipJSON : {FALSE}]

InitGen ==
    /\ files = <<>>
    /\ cfg \in GenConfigs
    /\ status = <<>>
    /\ results = <<>>
    /\ collected = <<>>
    /\ pc = "group"
    /\ entries \in SeqsUpTo(GenEntries, MaxEntries)
    /\ RunIdle
    /\ DocIdle

NextGen == Run

SpecGen == InitGen /\ [][NextGen]_vars

\* ------------------------------------------------------------------------
\* The HTML trees of one document
\*
\* A tree is the sequence of its top-level elements; an element has a name, its
\* attributes (a function from attribute names to strings; class holds the
\* space-separated class names), its child elements and its text.
\* ------------------------------------------------------------------------
NoAttrs == [a \in {} |-> ""]

Element(name, attrs, children, text) ==
    [name |-> name, attrs |-> attrs, children |-> children, text |-> text]

\* tag.get(key, default)
Get(attrs, key, default) == IF key \in DOMAIN attrs THEN attrs[key] ELSE default

\* tag[key] = value
Put(attrs, key, value) ==
    [a \in (DOMAIN attrs) \cup {key} |-> IF a = key THEN value ELSE attrs[a]]

\* tag.attrs.pop(key, None)
Pop(attrs, key) == [a \in (DOMAIN attrs) \ {key} |-> attrs[a]]

ClassNames(attrs) == IF "class" \in DOMAIN attrs THEN Range(Split(attrs["class"], " ")) ELSE {}

\* cfg["domain"]
Domain == "example.com"

RunAway == /\ files = <<>>
           /\ cfg = NoConfig
           /\ status = <<>>
           /\ results = <<>>
           /\ collected = <<>>
           /\ pc = "idle"
           /\ entries = <<>>
           /\ RunIdle

\* ------------------------------------------------------------------------
\* _fix_anchors
\* ------------------------------------------------------------------------
\* feed: a root-relative link to an .html page gets the domain in front
FixFeedLink(el) ==
    IF /\ el.name = "a"
       /\ "href" \in DOMAIN el.attrs
       /\ StartsWith(el.attrs["href"], "/")
       /\ EndsWith(el.attrs["href"], ".html")
    THEN [el EXCEPT !.attrs = Put(@, "href", "https://" \o Domain \o el.attrs["href"])]
    ELSE el

RECURSIVE FixFeedLinks(_)
FixFeedLinks(els) ==
    [i \in 1..Len(els) |-> [FixFeedLink(els[i]) EXCEPT !.children = FixFeedLinks(@)]]

\* page: every link that is neither a fragment nor ends in .html gets rel="noopener"
FixPageLink(el) ==
    IF /\ el.name = "a"
       /\ "href" \in DOMAIN el.attrs
       /\ ~(StartsWith(el.attrs["href"], "#") \/ EndsWith(el.attrs["href"], ".html"))
    THEN [el EXCEPT !.attrs = Put(@, "rel", "noopener")]
    ELSE el

RECURSIVE FixPageLinks(_)
FixPageLinks(els) ==
    [i \in 1..Len(els) |-> [FixPageLink(els[i]) EXCEPT !.children = FixPageLinks(@)]]

\* a fix-up that takes the first suffix without looking whether it is free
UniqueIdSingleTry(new_id, seen_ids, counter, unique_id) ==
    IF unique_id \in seen_ids THEN new_id \o "-" \o ToString(counter) ELSE unique_id

\* while unique_id in seen_ids: unique_id = f"{new_id}-{counter}"; counter += 1
RECURSIVE UniqueId(_, _, _, _)
UniqueId(new_id, seen_ids, counter, unique_id) ==
    IF unique_id \in seen_ids
    THEN UniqueId(new_id, seen_ids, counter + 1, new_id \o "-" \o ToString(counter))
    ELSE unique_id

IsBookmarkHeading(el) == el.name \in {"h1", "h2", "h3"} /\ Get(el.attrs, "id", "") # ""

\* the heading with its new id, the self-link appended, the bookmark class added
BookmarkHeading(el, unique_id) ==
    [el EXCEPT
        !.attrs = Put(Put(@, "id", unique_id), "class",
                      IF "class" \in DOMAIN el.attrs
                      THEN el.attrs["class"] \o " js-Bookmark"
                      ELSE "js-Bookmark"),
        !.children = Append(@, Element("a", [href |-> "#" \o unique_id], <<>>, ""))]

\* for h in soup.find_all(["h1", "h2", "h3"]): in document order, seen_ids threaded through
RECURSIVE FixHeadings(_, _)
FixHeadings(els, seen_ids) ==
    IF els = <<>> THEN [els |-> <<>>, seen_ids |-> seen_ids]
    ELSE LET el == els[1]
             unique_id == UniqueId("/" \o el.attrs["id"], seen_ids, 1, "/" \o el.attrs["id"])
             head == IF IsBookmarkHeading(el) THEN BookmarkHeading(el, unique_id) ELSE el
             seen1 == IF IsBookmarkHeading(el) THEN seen_ids \cup {unique_id} ELSE seen_ids
             inner == FixHeadings(el.children, seen1)
             rest == FixHeadings(Tail(els), inner.seen_ids)
         IN  [els |-> <<[head EXCEPT !.children =
                            inner.els \o SubSeq(head.children, Len(el.children) + 1, Len(head.children))]>>
                      \o rest.els,
              seen_ids |-> rest.seen_ids]

\* soup.find_all("h4", "h5"): the second positional argument of find_all is attrs, and
\* a string there selects by CSS class: the h4 elements of class "h5"
StripsId(el) == el.name = "h4" /\ "h5" \in ClassNames(el.attrs)

RECURSIVE StripHeadingIds(_)
StripHeadingIds(els) ==
    [i \in 1..Len(els) |->
        [els[i] EXCEPT !.attrs = IF StripsId(els[i]) THEN Pop(@, "id") ELSE @,
                       !.children = StripHeadingIds(@)]]

\* _fix_anchors(soup, domain, feed)
\* (the uniqueness set starts empty in every call: seen_ids = set())
fix_anchors(tree, feed) ==
    IF feed THEN FixFeedLinks(tree)
    ELSE StripHeadingIds(FixHeadings(FixPageLinks(tree), {}).els)

\* the documents of the heading model: headings and paragraphs holding one link
HeadingNames == {"h1", "h2", "h3", "h4", "h5"}

HeadingElements ==
    {Element(n, at, <<>>, "Intro") :
        n \in {"h1", "h2", "h3"},
        at \in {NoAttrs, [id |-> "intro"], [id |-> "intro-1"]}}
    \cup
    {Element(n, at, <<>>, "Intro") :
        n \in {"h4", "h5"},
        at \in {NoAttrs, [id |-> "intro"], [class |-> "h5"], [id |-> "intro", class |-> "h5"]}}

LinkParagraphs ==
    {Element("p", NoAttrs, <<Element("a", [href |-> h], <<>>, "link")>>, "") :
        h \in {"#top", "/about.html", "/about", "https://other.org/", "https://other.org/a.html"}}

\* the feed variant is parsed without the header-ids extra: its headings carry no id
WithoutHeaderIds(tree) ==
    [i \in 1..Len(tree) |->
        IF tree[i].name \in HeadingNames THEN [tree[i] EXCEPT !.attrs = Pop(@, "id")] ELSE tree[i]]

InitAnchors ==
    /\ RunAway
    /\ html \in SeqsUpTo(HeadingElements \cup LinkParagraphs, MaxHeadings)
    /\ soup = html
    /\ soup_feed = WithoutHeaderIds(html)
    /\ stage = "images"
    /\ has_playground = FALSE
    /\ playground_runtime = ""

\* line 339: _fix_anchors(soup_feed, domain, feed=True)
FixAnchorsFeed ==
    /\ stage = "images"
    /\ soup_feed' = fix_anchors(soup_feed, TRUE)
    /\ stage' = "anchors_feed"
    /\ UNCHANGED <<pipeVars, html, soup, has_playground, playground_runtime>>

\* line 340: _fix_anchors(soup, domain, feed=False)
FixAnchorsPage ==
    /\ stage = "anchors_feed"
    /\ soup' = fix_anchors(soup, FALSE)
    /\ stage' = "anchors"
    /\ UNCHANGED <<pipeVars, html, soup_feed, has_playground, playground_runtime>>

NextAnchors == FixAnchorsFeed \/ FixAnchorsPage

SpecAnchors == InitAnchors /\ [][NextAnchors]_vars

\* ------------------------------------------------------------------------
\* os.path and urllib.parse, on the paths and links of the model
\* ------------------------------------------------------------------------
\* str.rfind and str.find, 1-based, 0 when absent
LastIndexOf(s, c) ==
    LET at == {i \in 1..Len(s) : Char(s, i) = c}
    IN  IF at = {} THEN 0 ELSE CHOOSE i \in at : \A j \in at : j <= i

IndexOfAny(s, cs) ==
    LET at == {i \in 1..Len(s) : Char(s, i) \in cs}
    IN  IF at = {} THEN 0 ELSE CHOOSE i \in at : \A j \in at : i <= j

\* os.path.basename
Basename(path) == SubSeq(path, LastIndexOf(path, "/") + 1, Len(path))

\* os.path.dirname: the part before the last slash, without its trailing slashes
Dirname(path) ==
    LET head == SubSeq(path, 1, LastIndexOf(path, "/"))
    IN  IF head # "" /\ CharsOf(head) # {"/"} THEN RStrip(head, {"/"}) ELSE head

\* os.path.splitext: the extension starts at the last dot of the last component,
\* unless only dots precede it there
SplitextDot(path) ==
    LET sep == LastIndexOf(path, "/")
        dot == LastIndexOf(path, ".")
    IN  IF dot > sep /\ \E k \in (sep + 1)..(dot - 1) : Char(path, k) # "." THEN dot ELSE 0

SplitextRoot(path) ==
    IF SplitextDot(path) = 0 THEN path ELSE SubSeq(path, 1, SplitextDot(path) - 1)

SplitextExt(path) ==
    IF SplitextDot(path) = 0 THEN "" ELSE SubSeq(path, SplitextDot(path), Len(path))

SchemeChars == CharsOf(UpperLetters) \cup CharsOf(LowerLetters) \cup DigitChars \cup {"+", "-", "."}

\* urlsplit: what follows the scheme, if the text before the first colon is a scheme
AfterScheme(url) ==
    LET colon == IndexOfAny(url, {":"})
    IN  IF /\ colon > 1
           /\ Char(url, 1) \in CharsOf(UpperLetters) \cup CharsOf(LowerLetters)
           /\ CharsOf(SubSeq(url, 1, colon - 1)) \subseteq SchemeChars
        THEN SubSeq(url, colon + 1, Len(url))
        ELSE url

\* urlsplit: the network location, present when the rest starts with //
Netloc(url) ==
    LET rest == AfterScheme(url)
        after == SubSeq(rest, 3, Len(rest))
        stop == IndexOfAny(after, {"/", "?", "#"})
    IN  IF StartsWith(rest, "//")
        THEN SubSeq(after, 1, IF stop = 0 THEN Len(after) ELSE stop - 1)
        ELSE ""

\* urlparse(href).hostname: the host of the network location, lower-cased; "" for None
UrlHostname(url) ==
    LET netloc == Netloc(url)
        host == SubSeq(netloc, LastIndexOf(netloc, "@") + 1, Len(netloc))
        colon == IndexOfAny(host, {":"})
    IN  Lower(IF colon = 0 THEN host ELSE SubSeq(host, 1, colon - 1))

\* urlparse(href).path
UrlPath(url) ==
    LET rest == AfterScheme(url)
        tail == IF StartsWith(rest, "//")
                THEN SubSeq(rest, 2 + Len(Netloc(url)) + 1, Len(rest))
                ELSE rest
        stop == IndexOfAny(tail, {"?", "#"})
    IN  IF stop = 0 THEN tail ELSE SubSeq(tail, 1, stop - 1)

\* ------------------------------------------------------------------------
\* _process_body_images
\* ------------------------------------------------------------------------
\* re.search(r"-(\\d{1,3})$", stem): in the raw string \\ is an escaped backslash, so
\* the pattern is "-", a backslash and one to three letters d at the end of the stem;
\* the group is the backslash with the letters ("" when nothing matches)
WidthSuffix(stem) ==
    LET ks == {k \in 1..3 :
                  /\ Len(stem) >= k + 2
                  /\ SubSeq(stem, Len(stem) - k - 1, Len(stem) - k) = "-\\"
                  /\ \A i \in (Len(stem) - k + 1)..Len(stem) : Char(stem, i) = "d"}
    IN  IF ks = {} THEN "" ELSE LET k == CHOOSE k \in ks : TRUE
                                IN  SubSeq(stem, Len(stem) - k, Len(stem))

\* the value of an attribute that was given None
PyNone == "None"

JoinClasses(names) ==
    IF names = <<>> THEN ""
    ELSE IF Len(names) = 1 THEN names[1] ELSE names[1] \o " " \o names[2]

\* _embed_iframe_from_path: whether the path is {flags}/{name}.html
EmbedApplies(path) ==
    LET parts == Split(Strip(path, {"/"}), "/")
    IN  Len(parts) = 2 /\ SplitextExt(parts[2]) = ".html"

\* _embed_iframe_from_path: the container that replaces the paragraph
EmbedContainer(img, path) ==
    LET parts == Split(Strip(path, {"/"}), "/")
        flags == CharsOf(parts[1])
        base == SplitextRoot(parts[2])
        full == "f" \in flags
        classes == (IF "w" \in flags THEN <<"js-RoutableContent">> ELSE <<>>) \o
                   (IF "r" \in flags THEN <<"js-ResizableContent">> ELSE <<>>)
        frame0 == [id |-> base \o "-iframe", name |-> base, frameborder |-> "0",
                   title |-> Get(img.attrs, "alt", PyNone), src |-> path]
        frame == IF full THEN Put(frame0, "style", "width: 100%") ELSE frame0
        box0 == [id |-> base]
        box1 == IF classes # <<>> THEN Put(box0, "class", JoinClasses(classes)) ELSE box0
        box == IF full THEN Put(Put(box1, "data-fullsize", ""), "style", "width: 100%") ELSE box1
    IN  Element("div", box, <<Element("iframe", frame, <<>>, "")>>, "")

\* img["src"] = f"/images/{filename}"
NewSrc(img) == "/images/" \o Basename(Get(img.attrs, "src", ""))

IsImg(el) == el.name = "img"
HoldsImg(el) == \E k \in 1..Len(el.children) : IsImg(el.children[k])

\* the position of the first child that is an image, 0 when there is none
FirstImg(el) ==
    LET at == {k \in 1..Len(el.children) : IsImg(el.children[k])}
    IN  IF at = {} THEN 0 ELSE CHOOSE k \in at : \A j \in at : k <= j

\* the position of the first child that holds an image, 0 when there is none
FirstImgHolder(el) ==
    LET at == {k \in 1..Len(el.children) : HoldsImg(el.children[k])}
    IN  IF at = {} THEN 0 ELSE CHOOSE k \in at : \A j \in at : k <= j

\* the loop body for the image of one top-level block (a block holds at most one
\* image: the image itself, a child, or a child of a child)
ProcessImageBlock(el) ==
    IF IsImg(el) THEN
        \* a top-level image: its parent is the document
        [el EXCEPT !.attrs = Put(@, "src", NewSrc(el))]
    ELSE IF HoldsImg(el) THEN
        \* img.parent is el
        LET k == FirstImg(el)
            img == el.children[k]
            attrs1 == IF el.name = "p" THEN Put(el.attrs, "class", "text-center") ELSE el.attrs
            attrs2 == IF el.name = "a" THEN Put(attrs1, "href", NewSrc(img)) ELSE attrs1
        IN  [el EXCEPT !.attrs = attrs2,
                       !.children[k].attrs = Put(@, "src", NewSrc(img))]
    ELSE IF FirstImgHolder(el) # 0 THEN
        \* img.parent is a child of el, img.parent.parent is el
        LET j == FirstImgHolder(el)
            parent == el.children[j]
            k == FirstImg(parent)
            img == parent.children[k]
            src == Get(img.attrs, "src", "")
            href == Get(parent.attrs, "href", "")
            linked == parent.name = "a" /\ el.name = "p"
            local == linked /\ Dirname(src) = "./images" /\ UrlHostname(href) = ""
            embed == linked /\ ~local /\ Dirname(src) = "." /\ UrlHostname(href) = Domain
                     /\ EmbedApplies(UrlPath(href))
            width == WidthSuffix(SplitextRoot(src))
            img1 == IF local /\ width # "" THEN Put(img.attrs, "class", "w-" \o width) ELSE img.attrs
            img2 == Put(img1, "src", NewSrc(img))
            parent1 == IF parent.name = "p" THEN Put(parent.attrs, "class", "text-center")
                       ELSE parent.attrs
            parent2 == IF parent.name = "a" THEN Put(parent1, "href", NewSrc(img)) ELSE parent1
            grand == IF local THEN Put(el.attrs, "class", "text-center") ELSE el.attrs
        IN  IF embed THEN EmbedContainer(img, UrlPath(href))
            ELSE [el EXCEPT !.attrs = grand,
                            !.children[j].attrs = parent2,
                            !.children[j].children[k].attrs = img2]
    ELSE el

\* _process_body_images(soup, domain)
process_body_images(tree) == [i \in 1..Len(tree) |-> ProcessImageBlock(tree[i])]

ImgSrcs == {"./images/photo-320.png", "./images/photo.png", "./images/p-\\dd.png", "./demo.png"}
ImgHrefs == {"./images/photo-320.png", "https://example.com/wr/demo.html", "https://other.org/"}

ImageElement(src) == Element("img", [src |-> src, alt |-> "photo"], <<>>, "")

ImageBlocks ==
    {Element("p", NoAttrs, <<ImageElement(src)>>, "") : src \in ImgSrcs}
    \cup
    {Element("p", NoAttrs, <<Element("a", [href |-> h], <<ImageElement(src)>>, "")>>, "") :
        src \in ImgSrcs, h \in ImgHrefs}

InitImages ==
    /\ RunAway
    /\ html \in SeqsUpTo(ImageBlocks, MaxImages)
    /\ soup = html
    /\ soup_feed = html
    /\ stage = "playground_feed"
    /\ has_playground = FALSE
    /\ playground_runtime = ""

\* line 335: _process_body_images(soup, domain)
ProcessBodyImages ==
    /\ stage = "playground_feed"
    /\ soup' = process_body_images(soup)
    /\ stage' = "images"
    /\ UNCHANGED <<pipeVars, html, soup_feed, has_playground, playground_runtime>>

NextImages == ProcessBodyImages

SpecImages == InitImages /\ [][NextImages]_vars

\* ------------------------------------------------------------------------
\* _convert_playground_blocks
\* ------------------------------------------------------------------------
\* part.strip().split("=", 1)
BeforeEquals(part) == SubSeq(part, 1, IndexOfAny(part, {"="}) - 1)
AfterEquals(part) == SubSeq(part, IndexOfAny(part, {"="}) + 1, Len(part))

\* params = dict(part.strip().split("=", 1) for part in param_str.split(";") if "=" in part);
\* params.get(key, default): the last pair of that key wins
ParamGet(param_str, key, default) ==
    LET parts == Split(param_str, ";")
        at == {i \in 1..Len(parts) :
                  /\ IndexOfAny(parts[i], {"="}) # 0
                  /\ BeforeEquals(Strip(parts[i], Whitespace)) = key}
    IN  IF at = {} THEN default
        ELSE AfterEquals(Strip(parts[CHOOSE i \in at : \A j \in at : j <= i], Whitespace))

\* add_example_details
add_example_details(title, button_label, button_title, body, open_attr, autorun) ==
    LET attrs0 == [class |-> "Playground-Details js-exampleContainer"]
        attrs1 == IF open_attr THEN Put(attrs0, "open", "") ELSE attrs0
        attrs2 == IF autorun THEN Put(attrs1, "data-autorun", "") ELSE attrs1
        error_p == Element("p", ("class" :> "Playground-Error" @@ "role" :> "alert" @@
                                 "aria-atomic" :> "true"), <<>>, "")
        button == Element("button", ("class" :> "Playground-RunButton" @@
                                     "aria-label" :> button_label @@
                                     "title" :> button_title), <<>>, button_label)
        buttons_container == Element("div", [class |-> "Playground-ButtonsContainer"],
                                     <<error_p, button>>, "")
        toolbar == Element("div", [class |-> "Playground-DetailsToolbar"],
                           <<buttons_container>>, "")
        summary == Element("summary", [class |-> "Playground-DetailsHeader"],
                           <<Element("span", NoAttrs, <<>>, title), toolbar>>, "")
        textarea == Element("textarea", [class |-> "Playground-Code code", spellcheck |-> "false"],
                            <<>>, body)
        pre == Element("pre", NoAttrs,
                       <<Element("span", [class |-> "Playground-OutputLabel"], <<>>, "Output:"),
                         Element("span", [class |-> "Playground-Output"], <<>>, "")>>, "")
        body_div == Element("div", [class |-> "Playground-DetailsBody"], <<textarea, pre>>, "")
    IN  Element("details", attrs2, <<summary, body_div>>, "")

\* text.lower().startswith("playground:")
IsMarker(el) ==
    el.name = "blockquote" /\ StartsWith(Lower(Strip(el.text, Whitespace)), "playground:")

\* next_el and next_el.name == "pre" and next_el.code
HasCode(el) == el.name = "pre" /\ \E k \in 1..Len(el.children) : el.children[k].name = "code"

CodeText(el) ==
    el.children[CHOOSE k \in 1..Len(el.children) :
                   /\ el.children[k].name = "code"
                   /\ \A j \in 1..(k - 1) : el.children[j].name # "code"].text

\* the loop over soup.find_all("blockquote"), from the element at position i on; the
\* blockquotes of the model are top-level and not nested
RECURSIVE ConvertFrom(_, _, _, _, _)
ConvertFrom(els, i, has_pg, runtime, is_feed) ==
    IF i > Len(els) THEN [tree |-> els, has_playground |-> has_pg, runtime |-> runtime]
    ELSE IF ~IsMarker(els[i]) THEN ConvertFrom(els, i + 1, has_pg, runtime, is_feed)
    ELSE LET text == Strip(els[i].text, Whitespace)
             param_str == Strip(SubSeq(text, Len("playground:") + 1, Len(text)), Whitespace)
             \* line 149: has_playground = True, before the look at the next sibling
             has_pg1 == TRUE
             runtime1 == ParamGet(param_str, "runtime", runtime)
             title == ParamGet(param_str, "title", "Playground")
             button == ParamGet(param_str, "button", "Run")
             title_attr == ParamGet(param_str, "title_attr", button)
             autorun == Lower(ParamGet(param_str, "autorun", "false")) \in {"true", "1", "yes"}
             found == i < Len(els) /\ HasCode(els[i + 1])
             placeholder ==
                 Element("div", NoAttrs,
                         <<add_example_details(title, button, title_attr, CodeText(els[i + 1]),
                                               TRUE, autorun)>>, "")
         IN  IF ~found THEN ConvertFrom(els, i + 1, has_pg1, runtime1, is_feed)
             ELSE IF is_feed
             THEN ConvertFrom([els EXCEPT ![i] = Element("p", NoAttrs, <<>>, title)],
                              i + 1, has_pg1, runtime1, is_feed)
             ELSE ConvertFrom(SubSeq(els, 1, i - 1) \o <<placeholder>> \o SubSeq(els, i + 2, Len(els)),
                              i + 1, has_pg1, runtime1, is_feed)

\* _convert_playground_blocks(soup, is_feed)
convert_playground_blocks(tree, is_feed) == ConvertFrom(tree, 1, FALSE, "", is_feed)

PlaygroundBlocks ==
    {Element("blockquote", NoAttrs, <<>>, t) :
        t \in {"Playground: runtime=go; title=Demo", "playground: autorun=yes", "A summary"}}
    \cup
    {Element("pre", NoAttrs, <<Element("code", NoAttrs, <<>>, "x = 1")>>, ""),
     Element("pre", NoAttrs, <<>>, "plain"),
     Element("p", NoAttrs, <<>>, "text")}

InitPlayground ==
    /\ RunAway
    /\ html \in SeqsUpTo(PlaygroundBlocks, MaxBlocks)
    /\ soup = html
    /\ soup_feed = html
    /\ stage = "parsed"
    /\ has_playground = FALSE
    /\ playground_runtime = ""

\* line 331: has_pg, runtime = _convert_playground_blocks(soup, is_feed=False)
ConvertPlaygroundPage ==
    /\ stage = "parsed"
    /\ LET r == convert_playground_blocks(soup, FALSE)
       IN  /\ soup' = r.tree
           /\ has_playground' = r.has_playground
           /\ playground_runtime' = r.runtime
    /\ stage' = "playground"
    /\ UNCHANGED <<pipeVars, html, soup_feed>>

\* line 332: _convert_playground_blocks(soup_feed, is_feed=True), its result dropped
ConvertPlaygroundFeed ==
    /\ stage = "playground"
    /\ soup_feed' = convert_playground_blocks(soup_feed, TRUE).tree
    /\ stage' = "playground_feed"
    /\ UNCHANGED <<pipeVars, html, soup, has_playground, playground_runtime>>

NextPlayground == ConvertPlaygroundPage \/ ConvertPlaygroundFeed

SpecPlayground == InitPlayground /\ [][NextPlayground]_vars

\* ------------------------------------------------------------------------
\* _extract_metadata_and_widgets and _cleanup_blockquotes
\* ------------------------------------------------------------------------
IsQuote(el) == el.name = "blockquote"

\* the positions of the children of el that are blockquotes
NestedQuotes(el) == {k \in 1..Len(el.children) : IsQuote(el.children[k])}

\* bq["class"] = "note"
Note(bq) == [bq EXCEPT !.attrs = Put(@, "class", "note")]

\* The loop over soup.find_all("blockquote") on the subtree of one blockquote el that
\* is in the tree under a parent that is no blockquote. The list is taken before the
\* loop, in document order. The first nested blockquote replaces el; el leaves the
\* tree with its other children, so for a second nested blockquote of el
\* bq.parent.replace_with(bq) is called on an element without parent and raises
\* ValueError. `note` says whether the loop tags the blockquote (the page passes).
RECURSIVE UnwrapQuote(_, _)
UnwrapQuote(el, note) ==
    LET ks == NestedQuotes(el)
    IN  IF ks = {} THEN [el |-> el, raised |-> FALSE]
        ELSE LET k == CHOOSE k \in ks : \A j \in ks : k <= j
                 bq == IF note THEN Note(el.children[k]) ELSE el.children[k]
                 r == UnwrapQuote(bq, note)
             IN  [el |-> r.el, raised |-> r.raised \/ Cardinality(ks) > 1]

\* the loop over the whole document; an exception ends it where it is raised
UnwrapQuotes(tree, note) ==
    LET r == [i \in 1..Len(tree) |->
                 IF IsQuote(tree[i]) THEN UnwrapQuote(tree[i], note)
                 ELSE [el |-> tree[i], raised |-> FALSE]]
        before(i) == \E j \in 1..(i - 1) : r[j].raised
    IN  [tree |-> [i \in 1..Len(tree) |-> IF before(i) THEN tree[i] ELSE r[i].el],
         raised |-> \E i \in 1..Len(tree) : r[i].raised]

\* _cleanup_blockquotes(soup, is_feed): both branches unwrap, the page branch also tags
cleanup_blockquotes(tree, is_feed) == UnwrapQuotes(tree, ~is_feed)

\* div.insert_after(handle) for every top-level div with an id and the class
\* js-ResizableContent
ResizeHandle == Element("div", [class |-> "js-ResizableContent__handle"], <<>>, "")

IsResizable(el) ==
    /\ el.name = "div"
    /\ Get(el.attrs, "id", "") # ""
    /\ "js-ResizableContent" \in ClassNames(el.attrs)

RECURSIVE InsertHandles(_)
InsertHandles(tree) ==
    IF tree = <<>> THEN <<>>
    ELSE (IF IsResizable(tree[1]) THEN <<tree[1], ResizeHandle>> ELSE <<tree[1]>>)
         \o InsertHandles(Tail(tree))

\* _extract_metadata_and_widgets(soup), on the tree: the handles, then the same loop
\* over the blockquotes as the page branch of _cleanup_blockquotes (the returned
\* flag list is not part of the modelled state)
extract_metadata_and_widgets(tree) == UnwrapQuotes(InsertHandles(tree), TRUE)

\* the documents of the blockquote model
PlainQuote == Element("blockquote", NoAttrs, <<Element("p", NoAttrs, <<>>, "a")>>, "")
QuoteOf(children) == Element("blockquote", NoAttrs, children, "")

QuoteBlocks ==
    {Element("p", NoAttrs, <<>>, "text"),
     Element("div", [id |-> "demo", class |-> "js-ResizableContent"], <<>>, ""),
     PlainQuote,
     QuoteOf(<<PlainQuote>>),
     QuoteOf(<<Element("p", NoAttrs, <<>>, "b"), PlainQuote>>),
     QuoteOf(<<QuoteOf(<<PlainQuote>>)>>),
     QuoteOf(<<PlainQuote, PlainQuote>>)}

InitQuotes ==
    /\ RunAway
    /\ html \in SeqsUpTo(QuoteBlocks, MaxQuotes)
    /\ soup = html
    /\ soup_feed = html
    /\ stage = "anchors"
    /\ has_playground = FALSE
    /\ playground_runtime = ""

\* line 343: metadata_flags = _extract_metadata_and_widgets(soup)
ExtractMetadataAndWidgets ==
    /\ stage = "anchors"
    /\ LET r == extract_metadata_and_widgets(soup)
       IN  /\ soup' = r.tree
           /\ stage' = IF r.raised THEN "raised" ELSE "metadata"
    /\ UNCHANGED <<pipeVars, html, soup_feed, has_playground, playground_runtime>>

\* line 346: _cleanup_blockquotes(soup_feed, True)
CleanupBlockquotesFeed ==
    /\ stage = "metadata"
    /\ LET r == cleanup_blockquotes(soup_feed, TRUE)
       IN  /\ soup_feed' = r.tree
           /\ stage' = IF r.raised THEN "raised" ELSE "cleanup_feed"
    /\ UNCHANGED <<pipeVars, html, soup, has_playground, playground_runtime>>

\* line 347: _cleanup_blockquotes(soup, False)
CleanupBlockquotesPage ==
    /\ stage = "cleanup_feed"
    /\ LET r == cleanup_blockquotes(soup, FALSE)
       IN  /\ soup' = r.tree
           /\ stage' = IF r.raised THEN "raised" ELSE "cleanup"
    /\ UNCHANGED <<pipeVars, html, soup_feed, has_playground, playground_runtime>>

NextQuotes == ExtractMetadataAndWidgets \/ CleanupBlockquotesFeed \/ CleanupBlockquotesPage

SpecQuotes == InitQuotes /\ [][NextQuotes]_vars

\* ------------------------------------------------------------------------
\* Claims about Generator.run and main()
\* ------------------------------------------------------------------------
Min(a, b) == IF a < b THEN a ELSE b

Grouped == pc \in {"entries", "listing", "tags", "feeds", "static", "done"}
Listed == pc \in {"tags", "feeds", "static", "done"}

RECURSIVE OfKind(_, _)
OfKind(rs, kind) ==
    IF rs = <<>> THEN <<>>
    ELSE (IF rs[1].kind = kind THEN <<rs[1]>> ELSE <<>>) \o OfKind(Tail(rs), kind)

\* C1: for a corpus of n >= 1 entries and page size P, run emits ceil(n/P) numbered
\* listing pages; page k holds the entries at positions [(k-1)P, min(kP, n)) in corpus
\* order, its "more" is true exactly when k is not the last page, and "index" is
\* emitted once with the entries and the "more" of page 1.
C1_Pagination ==
    (Listed /\ Len(entries) >= 1) =>
        LET n == Len(entries)
            P == cfg.entriesPerPage
            pg == OfKind(emitted, "page")
            idx == OfKind(emitted, "index")
        IN  /\ Len(pg) = (n + P - 1) \div P
            /\ \A k \in 1..Len(pg) :
                  /\ pg[k].name = ToString(k)
                  /\ pg[k].page = k
                  /\ pg[k].entries = SubSeq(entries, (k - 1) * P + 1, Min(k * P, n))
                  /\ pg[k].more = (k # Len(pg))
            /\ Len(idx) = 1
            /\ idx[1].name = "index"
            /\ idx[1].entries = pg[1].entries
            /\ idx[1].more = pg[1].more

\* three entries on pages of two: a full first page with more, a short last page without
C1_Witness ==
    /\ pc = "done"
    /\ Len(entries) = 3
    /\ cfg.entriesPerPage = 2
    /\ entries[1] # entries[2]
    /\ Len(OfKind(emitted, "page")) = 2
    /\ OfKind(emitted, "page")[1].more
    /\ ~OfKind(emitted, "page")[2].more
    /\ OfKind(emitted, "index")[1].more

BadDocs == {i \in 1..Len(files) : ~HasTopLevelBlockquote(files[i].body)}

\* C2: a document without the top-level summary blockquote fails its ingestion, and
\* nothing is written to the output directory unless every document was ingested
\* successfully, wherever the bad document stands and however the workers interleave;
\* with a bad document the main thread never reaches Generator.run.
C2_NoPartialOutput ==
    /\ \A i \in BadDocs : status[i] \in {"queued", "running", "failed", "cancelled"}
    /\ (writes # <<>> \/ emitted # <<>>) =>
          \A i \in 1..Len(files) : status[i] = "done" /\ results[i].ok
    /\ BadDocs # {} =>
          /\ writes = <<>>
          /\ pc \in {"ingest", "cancel", "aborted"}
    /\ pc = "aborted" => BadDocs # {} /\ Running = {} /\ writes = <<>>

\* the second of two documents is the bad one; the first was ingested, the run aborted
C2_Witness ==
    /\ Len(files) = 2
    /\ BadDocs = {2}
    /\ status[1] = "done"
    /\ status[2] = "failed"
    /\ pc = "aborted"
    /\ writes = <<>>

RECURSIVE Carrying(_, _)
Carrying(es, tag) ==
    IF es = <<>> THEN <<>>
    ELSE (IF tag \in Range(es[1].tags) THEN <<es[1]>> ELSE <<>>) \o Carrying(Tail(es), tag)

AllTags(es) == UNION {Range(es[i].tags) : i \in 1..Len(es)}

\* C5: every tag's member list is exactly the entries carrying the tag, in corpus
\* order, each entry once even when it declares the tag more than once.
C5_TagMembersOnce ==
    Grouped =>
        /\ Range(Keys(entries_by_tag)) = AllTags(entries)
        /\ \A i \in 1..Len(entries_by_tag) :
              entries_by_tag[i].members = Carrying(entries, entries_by_tag[i].tag)

\* the tags of the corpus in the order of the forward pass, repeats included
TagOccurrences == Flatten([i \in 1..Len(entries) |-> entries[i].tags])

\* for every tag, the position of its first occurrence in occ
FirstOccurrences(occ) ==
    [t \in Range(occ) |->
        LET at == {i \in 1..Len(occ) : occ[i] = t}
        IN  CHOOSE i \in at : \A j \in at : i <= j]

\* for every tag, the length of its member list
MemberCounts == [t \in Range(Keys(entries_by_tag)) |-> Len(Members(entries_by_tag, t))]

Bijections(n) == {f \in [1..n -> 1..n] : \A a, b \in 1..n : f[a] = f[b] => a = b}

\* C7: whatever the order in which the workers start and complete, every future holds
\* the entry of its own document, the gathered list is in file-list order, and the
\* list handed to the Generator is that list stably sorted by published descending.
C7_DeterministicOrder ==
    /\ \A i \in 1..Len(files) :
          status[i] \in {"done", "failed"} => results[i] = entry_from_markdown(files[i])
    /\ \A k \in 1..Len(collected) : collected[k] = entry_from_markdown(files[k]).entry
    /\ Grouped =>
          /\ Len(entries) = Len(files)
          /\ \E f \in Bijections(Len(files)) :
                /\ \A k \in 1..Len(files) : entries[k] = entry_from_markdown(files[f[k]]).entry
                /\ \A k, l \in 1..Len(files) :
                      k < l =>
                          \/ files[f[k]].published > files[f[l]].published
                          \/ /\ files[f[k]].published = files[f[l]].published
                             /\ f[k] < f[l]

\* two different documents of one date keep their file-list order; the second worker
\* had finished while the first was still running
C7_Witness ==
    /\ pc = "done"
    /\ Len(files) = 2
    /\ files[1].published = files[2].published
    /\ files[1].title # files[2].title
    /\ entries = <<entry_from_markdown(files[1]).entry, entry_from_markdown(files[2]).entry>>

\* C8: no path under the output directory is opened for writing more than once in a run.
C8_WriteOnce ==
    \A i, j \in 1..Len(writes) : i # j => writes[i] # writes[j]

\* ------------------------------------------------------------------------
\* Claims about _fix_anchors
\* ------------------------------------------------------------------------
\* the positions of the level-1..3 headings that carried an id
Bookmarked == {i \in 1..Len(html) : IsBookmarkHeading(html[i])}

\* C3: after the page-variant fix-up the ids of the level-1..3 headings that carried
\* an id are pairwise distinct, whatever the original ids; a heading's new id is "/" +
\* its original id when no earlier heading got that id, and otherwise that id with the
\* smallest suffix -1, -2, ... no earlier heading got; nothing of an earlier call counts.
C3_UniqueHeadingIds ==
    stage = "anchors" =>
        /\ Len(soup) = Len(html)
        /\ \A i, j \in Bookmarked : i # j => soup[i].attrs["id"] # soup[j].attrs["id"]
        /\ \A i \in Bookmarked :
              LET base == "/" \o html[i].attrs["id"]
                  earlier == {soup[j].attrs["id"] : j \in {k \in Bookmarked : k < i}}
                  Suffixed(c) == base \o "-" \o ToString(c)
              IN  IF base \notin earlier
                  THEN soup[i].attrs["id"] = base
                  ELSE \E c \in 1..Len(html) :
                          /\ soup[i].attrs["id"] = Suffixed(c)
                          /\ Suffixed(c) \notin earlier
                          /\ \A d \in 1..(c - 1) : Suffixed(d) \in earlier

\* intro-1, intro, intro: the second intro finds /intro and /intro-1 taken
C3_Witness ==
    /\ stage = "anchors"
    /\ Len(html) = 3
    /\ Bookmarked = {1, 2, 3}
    /\ html[1].attrs["id"] = "intro-1"
    /\ html[2].attrs["id"] = "intro"
    /\ html[3].attrs["id"] = "intro"
    /\ soup[1].attrs["id"] = "/intro-1"
    /\ soup[2].attrs["id"] = "/intro"
    /\ soup[3].attrs["id"] = "/intro-2"

\* C9: after the page-variant fix-up no level-4 or level-5 heading carries an id,
\* whatever its other attributes.
C9_NoIdOnH4H5 ==
    stage = "anchors" =>
        \A i \in 1..Len(soup) : soup[i].name \in {"h4", "h5"} => "id" \notin DOMAIN soup[i].attrs

\* ------------------------------------------------------------------------
\* Claims about _process_body_images
\* ------------------------------------------------------------------------
IsDigit(c) == c \in DigitChars

\* the width pattern of the claim: "-" and one to three digits at the end
WidthSuffixDigits(stem) ==
    LET ks == {k \in 1..3 :
                  /\ Len(stem) >= k + 1
                  /\ Char(stem, Len(stem) - k) = "-"
                  /\ \A i \in (Len(stem) - k + 1)..Len(stem) : IsDigit(Char(stem, i))}
    IN  IF ks = {} THEN "" ELSE LET k == CHOOSE k \in ks : TRUE
                                IN  SubSeq(stem, Len(stem) - k + 1, Len(stem))

\* an image under ./images, in a link without hostname, in a paragraph, whose file
\* name without extension ends in "-" and one to three digits
IsSizedLinkedImage(el) ==
    /\ el.name = "p"
    /\ Len(el.children) = 1
    /\ el.children[1].name = "a"
    /\ Len(el.children[1].children) = 1
    /\ el.children[1].children[1].name = "img"
    /\ UrlHostname(Get(el.children[1].attrs, "href", "")) = ""
    /\ LET src == el.children[1].children[1].attrs["src"]
       IN  /\ Dirname(src) = "./images"
           /\ WidthSuffixDigits(SplitextRoot(Basename(src))) # ""

\* C4: such an image gets the class w-<digits>, its grandparent paragraph the class
\* text-center, and its src becomes /images/<basename>.
C4_WidthClass ==
    stage = "images" =>
        \A i \in 1..Len(html) :
            IsSizedLinkedImage(html[i]) =>
                LET src == html[i].children[1].children[1].attrs["src"]
                    img == soup[i].children[1].children[1]
                IN  /\ Get(img.attrs, "class", "") =
                          "w-" \o WidthSuffixDigits(SplitextRoot(Basename(src)))
                    /\ Get(soup[i].attrs, "class", "") = "text-center"
                    /\ img.attrs["src"] = "/images/" \o Basename(src)

\* ------------------------------------------------------------------------
\* Claims about _convert_playground_blocks
\* ------------------------------------------------------------------------
\* the interactive container a converted marker block leaves in the page variant
IsPlaygroundContainer(el) ==
    /\ el.name = "div"
    /\ Len(el.children) = 1
    /\ el.children[1].name = "details"
    /\ "js-exampleContainer" \in ClassNames(el.children[1].attrs)

\* a marker block of the parsed page that its next sibling lets convert
Convertible(i) == IsMarker(html[i]) /\ i < Len(html) /\ HasCode(html[i + 1])

\* C10: has_playground is true only if a marker block of the page variant was
\* converted into an interactive container; when no marker block is followed by a pre
\* holding code, has_playground is false and the page variant is unchanged.
C10_PlaygroundOnlyIfConverted ==
    stage \in {"playground", "playground_feed"} =>
        /\ has_playground => \E i \in 1..Len(soup) : IsPlaygroundContainer(soup[i])
        /\ (\A i \in 1..Len(html) : ~Convertible(i)) => ~has_playground /\ soup = html

\* ------------------------------------------------------------------------
\* Claims about the links of _fix_anchors
\* ------------------------------------------------------------------------
\* a link to another host: its href names a host that is not the site's own
IsExternalLink(href) == UrlHostname(href) \notin {"", Domain}

\* the positions <<i, k>> of the links of the page variant
PageLinks ==
    {ik \in (1..Len(soup)) \X (1..1) :
        /\ Len(soup[ik[1]].children) >= ik[2]
        /\ soup[ik[1]].children[ik[2]].name = "a"
        /\ "href" \in DOMAIN soup[ik[1]].children[ik[2]].attrs}

\* C11: after the page-variant fix-up a link carries rel="noopener" if and only if
\* its href points to another host: every external link has it, also one whose path
\* ends in .html, and fragment links and local links do not.
C11_NoopenerIffExternal ==
    stage = "anchors" =>
        \A ik \in PageLinks :
            LET a == soup[ik[1]].children[ik[2]]
            IN  (Get(a.attrs, "rel", "") = "noopener") <=> IsExternalLink(a.attrs["href"])

\* ------------------------------------------------------------------------
\* Claims about the nested blockquotes
\* ------------------------------------------------------------------------
\* the positions of the top-level blockquotes of the parsed document that hold a
\* blockquote
Nesting == {i \in 1..Len(html) : IsQuote(html[i]) /\ NestedQuotes(html[i]) # {}}

\* the top-level blockquotes of a variant, in document order
QuotesOf(tree) == SelectSeq(tree, IsQuote)

\* C12: once all passes have run, the nested blockquotes are normalised alike in the
\* two variants: the blockquotes of the page variant and of the feed variant are the
\* same, and every blockquote that replaced its parent carries the class note.
C12_SameNormalization ==
    stage = "cleanup" =>
        /\ QuotesOf(soup) = QuotesOf(soup_feed)
        /\ \A i \in Nesting :
              /\ IsQuote(soup_feed[i])
              /\ NestedQuotes(soup_feed[i]) = {}
              /\ Get(soup_feed[i].attrs, "class", "") = "note"

====
